---- MODULE Spec2Model ----
(***************************************************************************)
(* A model of computeSales.py: the command-line program that joins a price *)
(* catalogue with a list of sales and writes SalesResults.txt.             *)
(*                                                                         *)
(* Text is a sequence of one-character strings, so that str.strip(),       *)
(* float() of a string and the number formats are computed rather than     *)
(* assumed.  Numbers are integers: every float the model's inputs can      *)
(* produce is a small whole number, on which IEEE-754 arithmetic is exact. *)
(* An integer literal beyond the range of a float (10**400) is the JSON    *)
(* value JBig.                                                             *)
(***************************************************************************)
EXTENDS Integers, Sequences, FiniteSets, TLC

\* ---------------------------------------------------------------- bounds
MaxCatRows == 2
MaxSalesRows == 2

\* ----------------------------------------------------------- JSON values
JNull == [t |-> "null"]
JBool(b) == [t |-> "bool", b |-> b]
JInt(n) == [t |-> "int", n |-> n]
JBig == [t |-> "big"]
JStr(s) == [t |-> "str", s |-> s]
JList(l) == [t |-> "list", l |-> l]
JObj(d) == [t |-> "obj", d |-> d]

\* the decimal literal of 10**400, the integer JBig stands for
BigLiteral == [i \in 1..401 |-> IF i = 1 THEN "1" ELSE "0"]

\* -------------------------------------------------------- text functions
Digits == <<"0", "1", "2", "3", "4", "5", "6", "7", "8", "9">>

IsDigit(c) == \E i \in 1..10 : Digits[i] = c

DigitVal(c) == (CHOOSE i \in 1..10 : Digits[i] = c) - 1

IsSpace(c) == c = " "

RECURSIVE LStrip(_)
LStrip(s) == IF s # <<>> /\ IsSpace(Head(s)) THEN LStrip(Tail(s)) ELSE s

RECURSIVE RStrip(_)
RStrip(s) ==
  IF s # <<>> /\ IsSpace(s[Len(s)]) THEN RStrip(SubSeq(s, 1, Len(s) - 1)) ELSE s

\* str.strip()
Strip(s) == RStrip(LStrip(s))

RECURSIVE NatToStr(_)
NatToStr(n) ==
  IF n < 10 THEN <<Digits[n + 1]>>
  ELSE NatToStr(n \div 10) \o <<Digits[(n % 10) + 1]>>

\* str() of a Python int
IntToStr(n) == IF n < 0 THEN <<"-">> \o NatToStr(0 - n) ELSE NatToStr(n)

\* format(x, "g") of a whole float of magnitude below 1e6
FmtG(x) == IntToStr(x)

\* format(x, ".2f") of a whole float
Fmt2(x) == IntToStr(x) \o <<".", "0", "0">>

RECURSIVE ZeroPad(_, _)
ZeroPad(s, width) == IF Len(s) >= width THEN s ELSE ZeroPad(<<"0">> \o s, width)

\* format(x, ".6f") of a duration given in whole microseconds
Fmt6(us) ==
  NatToStr(us \div 1000000) \o <<".">> \o ZeroPad(NatToStr(us % 1000000), 6)

RECURSIVE DigitsVal(_)
DigitsVal(s) ==
  IF s = <<>> THEN 0
  ELSE 10 * DigitsVal(SubSeq(s, 1, Len(s) - 1)) + DigitVal(s[Len(s)])

AllDigits(s) == s # <<>> /\ \A i \in 1..Len(s) : IsDigit(s[i])

FloatOk(x) == [r |-> "ok", v |-> x]
FloatErr(e) == [r |-> e, v |-> 0]

\* float() of a string: surrounding whitespace, an optional sign, digits
FloatOfStr(s) ==
  LET u == Strip(s)
      signed == u # <<>> /\ Head(u) \in {"-", "+"}
      body == IF signed THEN Tail(u) ELSE u
  IN  IF ~AllDigits(body) THEN FloatErr("ValueError")
      ELSE IF signed /\ Head(u) = "-" THEN FloatOk(0 - DigitsVal(body))
      ELSE FloatOk(DigitsVal(body))

\* float() of a JSON value
FloatOf(v) ==
  CASE v.t = "int" -> FloatOk(v.n)
    [] v.t = "bool" -> FloatOk(IF v.b THEN 1 ELSE 0)
    [] v.t = "big" -> FloatErr("OverflowError")
    [] v.t = "str" -> FloatOfStr(v.s)
    [] OTHER -> FloatErr("TypeError")

\* str() of a JSON value
PyStr(v) ==
  CASE v.t = "null" -> <<"N", "o", "n", "e">>
    [] v.t = "bool" -> IF v.b THEN <<"T", "r", "u", "e">>
                       ELSE <<"F", "a", "l", "s", "e">>
    [] v.t = "int" -> IntToStr(v.n)
    [] v.t = "big" -> BigLiteral
    [] v.t = "str" -> v.s
    [] v.t = "list" -> <<"[", ".", ".", ".", "]">>
    [] OTHER -> <<"{", ".", ".", ".", "}">>

\* str() raises for no value that json.load returns
StrRaises(v) == FALSE

Unprintable == <<"<", "u", "n", "p", "r", "i", "n", "t", "a", "b", "l", "e", ">">>

_safe_str(v) == IF StrRaises(v) THEN Unprintable ELSE PyStr(v)

NA == <<"N", "/", "A">>

\* a slip that drops the caller's default: dict.get(key)
GetIgnoringDefault(d, key, default) == IF key \in DOMAIN d THEN d[key] ELSE JNull

\* dict.get(key, default)
Get(d, key, default) == IF key \in DOMAIN d THEN d[key] ELSE default

\* isinstance(v, str) and v.strip() is not empty
NonEmptyStr(v) == v.t = "str" /\ Strip(v.s) # <<>>

\* ------------------------------------------------- console and file lines
\* a printed or written line: its template, the row number it names (0 when
\* it names none) and the texts substituted into the template, in order
Line(kind, row, f) == [kind |-> kind, row |-> row, f |-> f]

ReportKinds ==
  {"header", "rule", "valid_rows", "detail", "blank", "total_cost", "elapsed"}

CatDiagKinds == {"cat_not_object", "cat_bad_title", "cat_bad_price"}

SaleDiagKinds ==
  {"sale_not_object", "sale_bad_product", "sale_bad_quantity",
   "sale_unknown_product"}

\* ------------------------------------------------------------ the inputs
W == <<"W">>
G == <<"G">>

CatRows ==
  << JInt(5),
     JObj([title |-> JStr(W), price |-> JInt(2)]),
     JObj([title |-> JStr(<<" ", "W", " ">>), price |-> JStr(<<"3">>)]),
     JObj([title |-> JStr(G), price |-> JStr(<<"a", "b", "c">>)]),
     JObj([title |-> JStr(W), price |-> JBig]) >>

SaleRows ==
  << JInt(5),
     JObj([Product |-> JStr(<<" ", "W", " ">>),
           Quantity |-> JStr(<<" ", "2", " ">>),
           SALE_ID |-> JStr(<<"S", "1">>), SALE_Date |-> JStr(<<"D", "1">>)]),
     JObj([Product |-> JStr(W), Quantity |-> JStr(<<"-", "1">>),
           SALE_ID |-> JNull, SALE_Date |-> JInt(7)]),
     JObj([Product |-> JStr(G), Quantity |-> JInt(0), SALE_ID |-> JBool(TRUE)]),
     JObj([Product |-> JStr(W), Quantity |-> JStr(<<"a", "b", "c">>)]),
     JObj([Product |-> JStr(<<" ">>), Quantity |-> JInt(1)]),
     JObj([Product |-> JStr(W), Quantity |-> JBool(TRUE)]),
     JObj([Product |-> JStr(W), Quantity |-> JBig]) >>

\* a top-level JSON document that is not an array
NotAnArray == JObj([title |-> JStr(W)])

\* the ways open() and json.load() fail
LoadErrors == {"OSError", "JSONDecodeError"}

\* len(sys.argv)
ArgCounts == {2, 3, 4}

\* time.perf_counter() differences, in microseconds
ElapsedMicros == {42, 1500000}

NoFile == [exists |-> FALSE, lines |-> <<>>]
StaleFile == [exists |-> TRUE, lines |-> <<Line("stale", 0, <<>>)>>]

\* ------------------------------------------------------------- the state
VARIABLES pc, argc, cat_load, sales_load, catalogue_json, sales_json,
          prices, idx, sale, total, detail_lines, valid_rows,
          console, file, exit_code, uncaught, stages

vars == <<pc, argc, cat_load, sales_load, catalogue_json, sales_json,
          prices, idx, sale, total, detail_lines, valid_rows,
          console, file, exit_code, uncaught, stages>>

EmptyMap == [k \in {} |-> 0]

\* prices[key] = value
Put(m, key, value) ==
  [k \in DOMAIN m \cup {key} |-> IF k = key THEN value ELSE m[k]]

NoSale ==
  [some |-> FALSE, sale_id |-> <<>>, sale_date |-> <<>>, product |-> <<>>,
   quantity |-> 0]

SaleLine(sale_id, sale_date, product, quantity) ==
  [some |-> TRUE, sale_id |-> sale_id, sale_date |-> sale_date,
   product |-> product, quantity |-> quantity]

Init ==
  /\ pc = "start"
  /\ argc \in ArgCounts
  /\ cat_load = "pending"
  /\ sales_load = "pending"
  /\ catalogue_json = JNull
  /\ sales_json = JNull
  /\ prices = EmptyMap
  /\ idx = 0
  /\ sale = NoSale
  /\ total = 0
  /\ detail_lines = <<>>
  /\ valid_rows = 0
  /\ console = <<>>
  /\ file \in {NoFile, StaleFile}
  /\ exit_code = -1
  /\ uncaught = "none"
  /\ stages = <<>>

\* sys.exit(1) after printing a message
Exit1(msg) ==
  /\ console' = Append(console, msg)
  /\ pc' = "exit1"
  /\ exit_code' = 1
  /\ UNCHANGED uncaught

\* an exception nothing catches: traceback on stderr, exit status 1
Crash(exc) ==
  /\ pc' = "crashed"
  /\ exit_code' = 1
  /\ uncaught' = exc
  /\ UNCHANGED console

\* a slip that prints the usage message and goes on
CheckArgsNoExit ==
  /\ pc = "start"
  /\ pc' = "load_catalogue"
  /\ console' = IF argc # 3 THEN Append(console, Line("usage", 0, <<>>))
                ELSE console
  /\ UNCHANGED <<argc, cat_load, sales_load, catalogue_json, sales_json,
                 prices, idx, sale, total, detail_lines, valid_rows, file,
                 exit_code, uncaught, stages>>

CheckArgs ==
  /\ pc = "start"
  /\ IF argc # 3
       THEN Exit1(Line("usage", 0, <<>>))
       ELSE /\ pc' = "load_catalogue"
            /\ UNCHANGED <<console, exit_code, uncaught>>
  /\ UNCHANGED <<argc, cat_load, sales_load, catalogue_json, sales_json,
                 prices, idx, sale, total, detail_lines, valid_rows, file,
                 stages>>

\* json.load's result for a file holding an array of the chosen rows
ArrayOf(rows, len, pick) == JList([i \in 1..len |-> rows[pick[i]]])

\* main: the first load_json_file call and its except clause
LoadCatalogue ==
  /\ pc = "load_catalogue"
  /\ stages' = Append(stages, "load_catalogue")
  /\ \/ \E e \in LoadErrors :
          /\ cat_load' = e
          /\ Exit1(Line("error_catalogue", 0, <<>>))
          /\ UNCHANGED catalogue_json
     \/ /\ cat_load' = "ok"
        /\ \/ catalogue_json' = NotAnArray
           \/ \E len \in 0..MaxCatRows : \E pick \in [1..len -> 1..Len(CatRows)] :
                catalogue_json' = ArrayOf(CatRows, len, pick)
        /\ pc' = "load_sales"
        /\ UNCHANGED <<console, exit_code, uncaught>>
  /\ UNCHANGED <<argc, sales_load, sales_json, prices, idx, sale, total,
                 detail_lines, valid_rows, file>>

\* main: the second load_json_file call and its except clause
LoadSales ==
  /\ pc = "load_sales"
  /\ stages' = Append(stages, "load_sales")
  /\ \/ \E e \in LoadErrors :
          /\ sales_load' = e
          /\ Exit1(Line("error_sales", 0, <<>>))
          /\ UNCHANGED sales_json
     \/ /\ sales_load' = "ok"
        /\ \/ sales_json' = NotAnArray
           \/ \E len \in 0..MaxSalesRows :
              \E pick \in [1..len -> 1..Len(SaleRows)] :
                sales_json' = ArrayOf(SaleRows, len, pick)
        /\ pc' = "build"
        /\ UNCHANGED <<console, exit_code, uncaught>>
  /\ UNCHANGED <<argc, cat_load, catalogue_json, prices, idx, sale, total,
                 detail_lines, valid_rows, file>>

\* build_price_map up to its loop; main calls it outside any try block
BuildStart ==
  /\ pc = "build"
  /\ stages' = Append(stages, "build")
  /\ IF catalogue_json.t # "list"
       THEN Crash("ValueError") /\ UNCHANGED <<prices, idx>>
       ELSE /\ prices' = EmptyMap
            /\ idx' = 1
            /\ pc' = "build_loop"
            /\ UNCHANGED <<console, exit_code, uncaught>>
  /\ UNCHANGED <<argc, cat_load, sales_load, catalogue_json, sales_json, sale,
                 total, detail_lines, valid_rows, file>>

\* one iteration of build_price_map's loop on item, the row numbered row_num:
\* the map afterwards, the line printed (if any), the exception raised (if any)
BuildItem(map, item, row_num) ==
  IF item.t # "obj"
    THEN [prices |-> map, out |-> <<Line("cat_not_object", row_num, <<>>)>>,
          exc |-> "none"]
  ELSE
    LET title == Get(item.d, "title", JNull)
        price == Get(item.d, "price", JNull)
        price_num == FloatOf(price)
    IN  IF ~NonEmptyStr(title)
          THEN [prices |-> map, out |-> <<Line("cat_bad_title", row_num, <<>>)>>,
                exc |-> "none"]
        ELSE IF price_num.r \in {"TypeError", "ValueError"}
          THEN [prices |-> map,
                out |-> <<Line("cat_bad_price", row_num,
                               <<title.s, _safe_str(price)>>)>>,
                exc |-> "none"]
        ELSE IF price_num.r # "ok"
          THEN [prices |-> map, out |-> <<>>, exc |-> price_num.r]
        ELSE [prices |-> Put(map, Strip(title.s), price_num.v), out |-> <<>>,
              exc |-> "none"]

BuildRow ==
  /\ pc = "build_loop"
  /\ idx <= Len(catalogue_json.l)
  /\ LET step == BuildItem(prices, catalogue_json.l[idx], idx)
     IN  IF step.exc # "none"
           THEN Crash(step.exc) /\ UNCHANGED <<prices, idx>>
           ELSE /\ prices' = step.prices
                /\ console' = console \o step.out
                /\ idx' = idx + 1
                /\ UNCHANGED <<pc, exit_code, uncaught>>
  /\ UNCHANGED <<argc, cat_load, sales_load, catalogue_json, sales_json, sale,
                 total, detail_lines, valid_rows, file, stages>>

\* build_price_map returns; main binds prices
BuildReturn ==
  /\ pc = "build_loop"
  /\ idx > Len(catalogue_json.l)
  /\ pc' = "aggregate"
  /\ UNCHANGED <<argc, cat_load, sales_load, catalogue_json, sales_json,
                 prices, idx, sale, total, detail_lines, valid_rows, console,
                 file, exit_code, uncaught, stages>>

\* parse_sale_line: the SaleLine returned (NoSale for None), the line printed,
\* the exception raised
parse_sale_line(raw, row_num) ==
  IF raw.t # "obj"
    THEN [sale |-> NoSale, out |-> <<Line("sale_not_object", row_num, <<>>)>>,
          exc |-> "none"]
  ELSE
    LET product == Get(raw.d, "Product", JNull)
        quantity == Get(raw.d, "Quantity", JNull)
        qty == FloatOf(quantity)
    IN  IF ~NonEmptyStr(product)
          THEN [sale |-> NoSale,
                out |-> <<Line("sale_bad_product", row_num, <<>>)>>,
                exc |-> "none"]
        ELSE IF qty.r \in {"TypeError", "ValueError"}
          THEN [sale |-> NoSale,
                out |-> <<Line("sale_bad_quantity", row_num,
                               <<product.s, _safe_str(quantity)>>)>>,
                exc |-> "none"]
        ELSE IF qty.r # "ok"
          THEN [sale |-> NoSale, out |-> <<>>, exc |-> qty.r]
        ELSE [sale |-> SaleLine(_safe_str(Get(raw.d, "SALE_ID", JStr(NA))),
                                _safe_str(Get(raw.d, "SALE_Date", JStr(NA))),
                                Strip(product.s), qty.v),
              out |-> <<>>, exc |-> "none"]

\* a slip that reports the ValueError and goes on to the report
AggregateStartFallThrough ==
  /\ pc = "aggregate"
  /\ stages' = Append(stages, "aggregate")
  /\ IF sales_json.t # "list"
       THEN /\ console' = Append(console, Line("error_processing", 0, <<>>))
            /\ pc' = "report"
            /\ UNCHANGED <<total, detail_lines, valid_rows, idx>>
       ELSE /\ total' = 0
            /\ detail_lines' = <<>>
            /\ valid_rows' = 0
            /\ idx' = 1
            /\ pc' = "aggregate_loop"
            /\ UNCHANGED console
  /\ UNCHANGED <<argc, cat_load, sales_load, catalogue_json, sales_json,
                 prices, sale, file, exit_code, uncaught>>

\* compute_total up to its loop, and main's except clause around the call
AggregateStart ==
  /\ pc = "aggregate"
  /\ stages' = Append(stages, "aggregate")
  /\ IF sales_json.t # "list"
       THEN /\ Exit1(Line("error_processing", 0, <<>>))
            /\ UNCHANGED <<total, detail_lines, valid_rows, idx>>
       ELSE /\ total' = 0
            /\ detail_lines' = <<>>
            /\ valid_rows' = 0
            /\ idx' = 1
            /\ pc' = "aggregate_loop"
            /\ UNCHANGED <<console, exit_code, uncaught>>
  /\ UNCHANGED <<argc, cat_load, sales_load, catalogue_json, sales_json,
                 prices, sale, file>>

\* a slip that drops what a negative quantity would subtract
LineTotalNonNegative(unit_price, quantity) ==
  IF quantity < 0 THEN 0 ELSE unit_price * quantity

\* line_total = unit_price * sale.quantity
LineTotal(unit_price, quantity) == unit_price * quantity

DetailLine(s, unit_price, line_total) ==
  Line("detail", 0,
       <<s.sale_id, s.sale_date, s.product, FmtG(s.quantity),
         Fmt2(unit_price), Fmt2(line_total)>>)

\* one iteration of compute_total's loop
AggregateRow ==
  /\ pc = "aggregate_loop"
  /\ idx <= Len(sales_json.l)
  /\ LET parsed == parse_sale_line(sales_json.l[idx], idx)
         s == parsed.sale
     IN  IF parsed.exc # "none"
           THEN /\ Crash(parsed.exc)
                /\ UNCHANGED <<sale, idx, total, detail_lines, valid_rows>>
         ELSE
           /\ sale' = s
           /\ idx' = idx + 1
           /\ UNCHANGED <<pc, exit_code, uncaught>>
           /\ IF ~s.some
                THEN /\ console' = console \o parsed.out
                     /\ UNCHANGED <<total, detail_lines, valid_rows>>
              ELSE IF s.product \notin DOMAIN prices
                THEN /\ valid_rows' = valid_rows + 1
                     /\ console' =
                          Append(console,
                                 Line("sale_unknown_product", idx, <<s.product>>))
                     /\ UNCHANGED <<total, detail_lines>>
              ELSE
                LET unit_price == prices[s.product]
                    line_total == LineTotal(unit_price, s.quantity)
                IN  /\ valid_rows' = valid_rows + 1
                    /\ total' = total + line_total
                    /\ detail_lines' =
                         Append(detail_lines, DetailLine(s, unit_price, line_total))
                    /\ UNCHANGED console
  /\ UNCHANGED <<argc, cat_load, sales_load, catalogue_json, sales_json,
                 prices, file, stages>>

ValidRowsLine(n) == Line("valid_rows", 0, <<IntToStr(n)>>)

\* a slip that appends the count line where the code inserts it at 0
AggregateReturnAppend ==
  /\ pc = "aggregate_loop"
  /\ idx > Len(sales_json.l)
  /\ detail_lines' = Append(detail_lines, ValidRowsLine(valid_rows))
  /\ pc' = "report"
  /\ UNCHANGED <<argc, cat_load, sales_load, catalogue_json, sales_json,
                 prices, idx, sale, total, valid_rows, console, file,
                 exit_code, uncaught, stages>>

\* compute_total's last two statements; main binds total and details
AggregateReturn ==
  /\ pc = "aggregate_loop"
  /\ idx > Len(sales_json.l)
  /\ detail_lines' = <<ValidRowsLine(valid_rows)>> \o detail_lines
  /\ pc' = "report"
  /\ UNCHANGED <<argc, cat_load, sales_load, catalogue_json, sales_json,
                 prices, idx, sale, total, valid_rows, console, file,
                 exit_code, uncaught, stages>>

\* a slip that leaves out the empty line before the totals
ReportLinesNoBlank(tot, details, elapsed_us) ==
  <<Line("header", 0, <<>>), Line("rule", 0, <<>>)>>
    \o details
    \o <<Line("total_cost", 0, <<Fmt2(tot)>>),
         Line("elapsed", 0, <<Fmt6(elapsed_us)>>)>>

\* the lines write_results builds
ReportLines(tot, details, elapsed_us) ==
  <<Line("header", 0, <<>>), Line("rule", 0, <<>>)>>
    \o details
    \o <<Line("blank", 0, <<>>),
         Line("total_cost", 0, <<Fmt2(tot)>>),
         Line("elapsed", 0, <<Fmt6(elapsed_us)>>)>>

\* main's last two statements: write_results prints, then writes the file
WriteResults ==
  /\ pc = "report"
  /\ stages' = Append(stages, "report")
  /\ \E elapsed \in ElapsedMicros :
       LET lines == ReportLines(total, detail_lines, elapsed)
       IN  /\ console' = console \o lines
           /\ file' = [exists |-> TRUE, lines |-> lines]
  /\ pc' = "done"
  /\ exit_code' = 0
  /\ UNCHANGED <<argc, cat_load, sales_load, catalogue_json, sales_json,
                 prices, idx, sale, total, detail_lines, valid_rows, uncaught>>

Next ==
  \/ CheckArgs
  \/ LoadCatalogue
  \/ LoadSales
  \/ BuildStart
  \/ BuildRow
  \/ BuildReturn
  \/ AggregateStart
  \/ AggregateRow
  \/ AggregateReturn
  \/ WriteResults

Spec == Init /\ [][Next]_vars

\* =========================================================== the claims
Terminal == {"done", "exit1", "crashed"}

Last(q) == q[Len(q)]

\* float() accepts the value
Coercible(v) == FloatOf(v).r = "ok"

\* the row conditions of parse_sale_line, stated on the raw row
RowPasses(raw) ==
  /\ raw.t = "obj"
  /\ "Product" \in DOMAIN raw.d
  /\ raw.d.Product.t = "str"
  /\ Strip(raw.d.Product.s) # <<>>
  /\ "Quantity" \in DOMAIN raw.d
  /\ Coercible(raw.d.Quantity)

ProductOf(raw) == Strip(raw.d.Product.s)

QuantityOf(raw) == FloatOf(raw.d.Quantity).v

Priced(raw) == RowPasses(raw) /\ ProductOf(raw) \in DOMAIN prices

RECURSIVE SumPriced(_)
SumPriced(n) ==
  IF n = 0 THEN 0
  ELSE LET raw == sales_json.l[n]
       IN  SumPriced(n - 1)
             + (IF Priced(raw) THEN prices[ProductOf(raw)] * QuantityOf(raw)
                ELSE 0)

RECURSIVE CountPassing(_)
CountPassing(n) ==
  IF n = 0 THEN 0
  ELSE CountPassing(n - 1) + (IF RowPasses(sales_json.l[n]) THEN 1 ELSE 0)

\* the text of an optional field: its str() when present, "N/A" when absent
\* or when str() fails
IdText(raw, key) ==
  IF key \notin DOMAIN raw.d THEN NA
  ELSE IF StrRaises(raw.d[key]) THEN NA
  ELSE PyStr(raw.d[key])

ExpectedDetail(raw) ==
  [kind |-> "detail", row |-> 0,
   f |-> <<IdText(raw, "SALE_ID"), IdText(raw, "SALE_Date"), ProductOf(raw),
           FmtG(QuantityOf(raw)), Fmt2(prices[ProductOf(raw)]),
           Fmt2(prices[ProductOf(raw)] * QuantityOf(raw))>>]

RECURSIVE ExpectedDetails(_)
ExpectedDetails(n) ==
  IF n = 0 THEN <<>>
  ELSE LET raw == sales_json.l[n]
       IN  IF Priced(raw) THEN Append(ExpectedDetails(n - 1), ExpectedDetail(raw))
           ELSE ExpectedDetails(n - 1)

\* C2: the detail lines compute_total returns start with the line
\* VALID_SALES_ROWS: <number of rows that pass row validation, priced or
\* not>, followed by one detail line per priced row, in input order
C2_ValidRowsLineThenDetails ==
  pc \in {"report", "done"} =>
    LET n == Len(sales_json.l)
    IN  detail_lines =
          <<[kind |-> "valid_rows", row |-> 0,
             f |-> <<IntToStr(CountPassing(n))>>]>> \o ExpectedDetails(n)

C2_Witness ==
  /\ pc = "done"
  /\ Len(sales_json.l) = 2
  /\ Priced(sales_json.l[1])
  /\ RowPasses(sales_json.l[2]) /\ ~Priced(sales_json.l[2])
  /\ Len(detail_lines) = 2

IsReportLine(line) == line.kind \in ReportKinds

\* the run meets one of the fatal errors of the spec
Fatal ==
  \/ argc # 3
  \/ cat_load \in LoadErrors
  \/ sales_load \in LoadErrors
  \/ cat_load = "ok" /\ catalogue_json.t # "list"
  \/ sales_load = "ok" /\ sales_json.t # "list"

\* C3: in a run that meets a fatal error (argument count, unreadable file,
\* invalid JSON, top-level value not an array) write_results is never
\* reached: the file keeps its prior state and no report line is printed
C3_FatalRunWritesNoReport ==
  Fatal =>
    /\ pc # "done"
    /\ "report" \notin {stages[i] : i \in 1..Len(stages)}
    /\ file \in {NoFile, StaleFile}
    /\ \A i \in 1..Len(console) : ~IsReportLine(console[i])

C3_Witness ==
  /\ pc = "exit1"
  /\ catalogue_json.t = "list"
  /\ sales_load = "ok" /\ sales_json.t # "list"
  /\ Len(console) >= 2
  /\ file = StaleFile

ErrorKinds == {"error_catalogue", "error_sales", "error_processing"}

\* a file failed to load or parse, or a top-level document is not an array
DataFatal ==
  \/ cat_load \in LoadErrors
  \/ sales_load \in LoadErrors
  \/ cat_load = "ok" /\ catalogue_json.t # "list"
  \/ sales_load = "ok" /\ sales_json.t # "list"

\* C4: whenever a file fails to load or parse, or the top-level document of
\* the catalogue or of the sales file is not an array, main catches the
\* error, prints a descriptive message and exits with code 1; no exception
\* is left unhandled
C4_DataErrorsCaughtByMain ==
  (pc \in Terminal /\ DataFatal) =>
    /\ pc = "exit1"
    /\ exit_code = 1
    /\ uncaught = "none"
    /\ console # <<>> /\ Last(console).kind \in ErrorKinds

\* the row conditions of build_price_map, stated on the raw row
CatRowValid(item) ==
  /\ item.t = "obj"
  /\ "title" \in DOMAIN item.d
  /\ item.d.title.t = "str"
  /\ Strip(item.d.title.s) # <<>>
  /\ "price" \in DOMAIN item.d
  /\ Coercible(item.d.price)

\* the rows among the first n that are valid and whose trimmed title is key
ValidWithTitle(n, key) ==
  {i \in 1..n : /\ CatRowValid(catalogue_json.l[i])
                /\ Strip(catalogue_json.l[i].d.title.s) = key}

\* trimmed title -> coerced price of the last valid row with that title
ExpectedPrices(n) ==
  LET keys == {Strip(catalogue_json.l[i].d.title.s) :
                 i \in {j \in 1..n : CatRowValid(catalogue_json.l[j])}}
  IN  [key \in keys |->
         LET last == CHOOSE i \in ValidWithTitle(n, key) :
                       \A j \in ValidWithTitle(n, key) : j <= i
         IN  FloatOf(catalogue_json.l[last].d.price).v]

BuildAborted ==
  pc = "crashed" /\ stages # <<>> /\ Last(stages) = "build"

\* C5: for every catalogue array the price map has exactly the trimmed
\* titles of the valid rows as keys, each mapped to the coerced price of the
\* last valid row with that title; an invalid row changes nothing and never
\* aborts the build
C5_PriceMapOfValidRows ==
  (cat_load = "ok" /\ catalogue_json.t = "list") =>
    /\ ~BuildAborted
    /\ pc = "build_loop" => prices = ExpectedPrices(idx - 1)
    /\ pc \in {"aggregate", "aggregate_loop", "report", "done"} =>
         prices = ExpectedPrices(Len(catalogue_json.l))

\* a numeric JSON value or a numeric string; true and false are neither
NumericOrNumericString(v) ==
  \/ v.t \in {"int", "big"}
  \/ v.t = "str" /\ Coercible(v)

\* row validation as the specification words it
RowValidAsSpecified(raw) ==
  /\ raw.t = "obj"
  /\ "Product" \in DOMAIN raw.d
  /\ raw.d.Product.t = "str"
  /\ Strip(raw.d.Product.s) # <<>>
  /\ "Quantity" \in DOMAIN raw.d
  /\ NumericOrNumericString(raw.d.Quantity)

RowDiagKinds == {"sale_not_object", "sale_bad_product", "sale_bad_quantity"}

\* the field a failing row fails on first
FirstFailure(raw) ==
  IF raw.t # "obj" THEN "sale_not_object"
  ELSE IF ~(/\ "Product" \in DOMAIN raw.d
            /\ raw.d.Product.t = "str"
            /\ Strip(raw.d.Product.s) # <<>>) THEN "sale_bad_product"
  ELSE "sale_bad_quantity"

RECURSIVE CountAsSpecified(_)
CountAsSpecified(n) ==
  IF n = 0 THEN 0
  ELSE CountAsSpecified(n - 1)
         + (IF RowValidAsSpecified(sales_json.l[n]) THEN 1 ELSE 0)

\* C6: a sales row passes row validation only if it is an object whose
\* Product is a string, non-empty after trimming, and whose Quantity is a
\* numeric value or a numeric string; every other row is left out of the
\* valid-row count and gets exactly one diagnostic naming its row number
\* and its first failing field, and processing goes on
C6_OnlyNumericQuantityPasses ==
  pc \in {"aggregate_loop", "report", "done"} =>
    /\ valid_rows = CountAsSpecified(idx - 1)
    /\ \A i \in 1..(idx - 1) :
         LET raw == sales_json.l[i]
             diags == {k \in 1..Len(console) :
                         /\ console[k].kind \in RowDiagKinds
                         /\ console[k].row = i}
         IN  IF RowValidAsSpecified(raw) THEN diags = {}
             ELSE /\ Cardinality(diags) = 1
                  /\ \A k \in diags : console[k].kind = FirstFailure(raw)

UnknownProductLine(i, raw) ==
  [kind |-> "sale_unknown_product", row |-> i, f |-> <<ProductOf(raw)>>]

\* the step of compute_total's loop on a row that passes row validation and
\* whose product is not a key of the price map
C7_UnpricedRowStep ==
  (/\ pc = "aggregate_loop"
   /\ idx <= Len(sales_json.l)
   /\ RowPasses(sales_json.l[idx])
   /\ ProductOf(sales_json.l[idx]) \notin DOMAIN prices) =>
    /\ valid_rows' = valid_rows + 1
    /\ total' = total
    /\ detail_lines' = detail_lines
    /\ console' = Append(console, UnknownProductLine(idx, sales_json.l[idx]))

\* with an empty catalogue, a run ends with total 0 and an unknown-product
\* diagnostic for every sales row that passes row validation
C7_EmptyCatalogue ==
  (/\ pc \in Terminal
   /\ cat_load = "ok" /\ catalogue_json.t = "list" /\ catalogue_json.l = <<>>
   /\ sales_load = "ok" /\ sales_json.t = "list") =>
    /\ total = 0
    /\ \A i \in 1..Len(sales_json.l) :
         RowPasses(sales_json.l[i]) =>
           \E k \in 1..Len(console) :
             console[k] = UnknownProductLine(i, sales_json.l[i])

\* C7: a row that passes row validation but whose trimmed product is not a
\* key of the price map raises the valid-row count, leaves the total
\* unchanged, appends no detail line and prints an unknown-product
\* diagnostic naming the row and the product; with an empty catalogue the
\* total is 0 for any sales array and every row that passes row validation
\* gets an unknown-product diagnostic
C7_UnknownProductCountedNotPriced ==
  [][C7_UnpricedRowStep]_vars /\ []C7_EmptyCatalogue

DiagKinds == CatDiagKinds \cup SaleDiagKinds

\* C8: after a successful run SalesResults.txt holds exactly the header,
\* the rule, the detail lines in order, an empty line, the TOTAL_COST line
\* and the ELAPSED_SECONDS line; the same sequence ends the console output,
\* prior file content is gone, and no diagnostic is in the file
C8_ReportLayout ==
  pc = "done" =>
    /\ file.exists
    /\ \E us \in ElapsedMicros :
         file.lines =
           <<[kind |-> "header", row |-> 0, f |-> <<>>],
             [kind |-> "rule", row |-> 0, f |-> <<>>]>>
           \o detail_lines
           \o <<[kind |-> "blank", row |-> 0, f |-> <<>>],
                [kind |-> "total_cost", row |-> 0, f |-> <<Fmt2(total)>>],
                [kind |-> "elapsed", row |-> 0, f |-> <<Fmt6(us)>>]>>
    /\ Len(console) >= Len(file.lines)
    /\ SubSeq(console, Len(console) - Len(file.lines) + 1, Len(console))
         = file.lines
    /\ \A i \in 1..Len(file.lines) :
         file.lines[i].kind \notin DiagKinds \cup {"stale"}

C8_Witness ==
  /\ pc = "done"
  /\ Len(detail_lines) = 3
  /\ Len(console) > Len(file.lines)
  /\ total # 0

StageOrder == <<"load_catalogue", "load_sales", "build", "aggregate", "report">>

Started(stage) == \E i \in 1..Len(stages) : stages[i] = stage

\* 1 for a catalogue-row diagnostic, 2 for a sales-row diagnostic, 3 for a
\* report line, 0 for any other line
Phase(line) ==
  IF line.kind \in CatDiagKinds THEN 1
  ELSE IF line.kind \in SaleDiagKinds THEN 2
  ELSE IF line.kind \in ReportKinds THEN 3
  ELSE 0

\* C9: the stages of main start in the order load catalogue, load sales,
\* build price map, aggregate, report, each only after the one before it
\* succeeded; on the console the catalogue-row diagnostics come first, in
\* row order, then the sales-row diagnostics, in row order, then the report
C9_StagesInOrder ==
  /\ Len(stages) <= Len(StageOrder)
  /\ \A i \in 1..Len(stages) : stages[i] = StageOrder[i]
  /\ Started("load_sales") => cat_load = "ok"
  /\ Started("build") => sales_load = "ok"
  /\ Started("aggregate") =>
       /\ catalogue_json.t = "list"
       /\ idx > Len(catalogue_json.l) \/ pc # "aggregate"
       /\ \A i \in 1..Len(catalogue_json.l) :
            BuildItem(EmptyMap, catalogue_json.l[i], i).exc = "none"
  /\ Started("report") =>
       /\ sales_json.t = "list"
       /\ idx > Len(sales_json.l)
       /\ uncaught = "none"
  /\ \A i, j \in 1..Len(console) :
       (i < j /\ Phase(console[i]) # 0 /\ Phase(console[j]) # 0) =>
         /\ Phase(console[i]) <= Phase(console[j])
         /\ (Phase(console[i]) = Phase(console[j]) /\ Phase(console[i]) < 3) =>
              console[i].row < console[j].row

C9_Witness ==
  /\ pc = "done"
  /\ stages = StageOrder
  /\ \E i \in 1..Len(console) : Phase(console[i]) = 1
  /\ \E i, j \in 1..Len(console) :
       i < j /\ Phase(console[i]) = 2 /\ Phase(console[j]) = 2

====
